---- MODULE Spec2Model ----
(***************************************************************************)
(* Model of envpool/core/env.h: the per-environment driver Env<EnvSpec>    *)
(* (SetAction, ParseAction, EnvStep, PreProcess, PostProcess, Allocate)    *)
(* together with the StateBufferQueue it publishes into.  The queue's      *)
(* header is not part of env.h; its contract is taken from section 4.2 of  *)
(* the design specification.                                               *)
(*                                                                         *)
(* C++ containers are 0-based, TLA+ sequences 1-based: a model sequence s  *)
(* holds C++ element i at s[i + 1].  Operators that take a field or row    *)
(* index take the C++ (0-based) index.                                     *)
(***************************************************************************)
EXTENDS Integers, Sequences, FiniteSets, TLC

(* ------------------------------ bounds --------------------------------- *)
\* drivers in the pool of the driver/queue specifications
NumEnvs == 2
\* largest environment id of the ParseAction specification (ids 0..MaxEnvId)
MaxEnvId == 2
\* most player rows of an ActionBatch in the ParseAction specification
MaxRows == 5
\* most player rows of an ActionBatch in the driver/queue specifications
MaxStepRows == 3
\* cap on the step counter (non-reset calls stop being issued at the cap)
MaxStep == 3
\* cap on the number of EnvStep calls issued in one behaviour
MaxCalls == 3
\* most Allocate calls one Reset/Step body makes
MaxAlloc == 2
\* largest player_num handed to Allocate
MaxPlayers == 2
\* rounds of slot space the queue provides in one behaviour
MaxRounds == 2

(* --------------------------- descriptors ------------------------------- *)
\* spec.action_spec: the shape of each declared action field, in declaration
\* order.  A leading dimension of -1 marks a per-player field; the second
\* field is the player-to-environment-id mapping.
ActionSpecShapes == << <<>>, <<-1>>, <<-1, 2>>, <<2>> >>

NumFields == Len(ActionSpecShapes)

\* is_player_action_[i], computed once by the constructor (0-based i)
IsPlayerAction(i) ==
  LET s == ActionSpecShapes[i + 1] IN Len(s) > 0 /\ s[1] = -1

\* the value of an int member the constructor leaves uninitialised (order_,
\* env_index_, sbq_); the driver writes each before it reads it
None == -1
\* slice_ as constructed: no slot, done_write is the logging stub
Stub == 0
\* action_batch_ as constructed: the empty shared_ptr
NullBatch == [stamps |-> <<>>, nenv |-> 0]

(* ----------------------------- Array ----------------------------------- *)
\* An ActionBatch is described by its id stamps (the rows of the second
\* field) and by nenv, the number of rows of its per-environment fields.
\* Every other cell holds a value that is distinct per (field, row).
Cell(b, i, r) == IF i = 1 THEN b.stamps[r + 1] ELSE <<i, r>>

\* number of rows of batch field i: (*action_batch_)[i].Shape(0)
Shape0(b, i) == IF IsPlayerAction(i) THEN Len(b.stamps) ELSE b.nenv

\* Array::Slice(start, end): an aliasing view of rows [start, end)
Slice(b, i, start, end) ==
  [kind |-> "slice", field |-> i, start |-> start, end |-> end,
   rows |-> [k \in 1..(end - start) |-> Cell(b, i, start + k - 1)]]

\* Array::operator[](r): an aliasing view of the single row r
Row(b, i, r) ==
  [kind |-> "row", field |-> i, start |-> r, end |-> r + 1,
   rows |-> <<Cell(b, i, r)>>]

\* mutant: the gather buffer is never smaller than one row
Gather_MinOneRow(b, i, index) ==
  [kind |-> "owned", field |-> i, start |-> 0, end |-> Len(index),
   rows |-> IF Len(index) = 0 THEN <<<<i, None>>>>
            ELSE [j \in 1..Len(index) |-> Cell(b, i, index[j])]]

\* Array arr(spec) with shape[0] = n, then arr[j].Assign(batch[i][index[j]])
Gather(b, i, index) ==
  [kind |-> "owned", field |-> i, start |-> 0, end |-> Len(index),
   rows |-> [j \in 1..Len(index) |-> Cell(b, i, index[j])]]

(* --------------------------- ParseAction ------------------------------- *)
\* the scan loop: indices i in [from, player_offset) with player_env_id[i] = id
RECURSIVE EnvPlayerIndex(_, _, _)
EnvPlayerIndex(stamps, id, from) ==
  IF from >= Len(stamps) THEN <<>>
  ELSE IF stamps[from + 1] = id
       THEN <<from>> \o EnvPlayerIndex(stamps, id, from + 1)
       ELSE EnvPlayerIndex(stamps, id, from + 1)

ParseStart(index) == IF Len(index) > 0 THEN index[1] ELSE 0
ParseEnd(index) == IF Len(index) > 0 THEN index[Len(index)] + 1 ELSE 0

\* mutant: the slice is taken whenever any row matches
Continuous_AnyMatch(index) == Len(index) > 0

\* mutant: the player_num > 0 guard is dropped
Continuous_NoGuard(index) == Len(index) = ParseEnd(index) - ParseStart(index)

\* bool continuous
Continuous(index) ==
  Len(index) > 0 /\ Len(index) = ParseEnd(index) - ParseStart(index)

\* mutant: the single-player slice starts at row 0
SingleEntry_FromZero(b, i, env_index) ==
  IF IsPlayerAction(i) THEN Slice(b, i, 0, env_index + 1)
  ELSE Row(b, i, env_index)

\* raw_action_ entry of field i, single-player branch
SingleEntry(b, i, env_index) ==
  IF IsPlayerAction(i) THEN Slice(b, i, env_index, env_index + 1)
  ELSE Row(b, i, env_index)

\* mutant: the per-environment row is taken at the first matched player row
MultiEntry_EnvRowAtStart(b, i, env_index, index) ==
  IF IsPlayerAction(i)
  THEN IF Continuous(index)
       THEN Slice(b, i, ParseStart(index), ParseEnd(index))
       ELSE Gather(b, i, index)
  ELSE Row(b, i, ParseStart(index))

\* raw_action_ entry of field i, multi-player branch
MultiEntry(b, i, env_index, index) ==
  IF IsPlayerAction(i)
  THEN IF Continuous(index)
       THEN Slice(b, i, ParseStart(index), ParseEnd(index))
       ELSE Gather(b, i, index)
  ELSE Row(b, i, env_index)

\* mutant: the field loop starts at the second field
ParseRaw_SkipsFirst(b, single, id, env_index) ==
  IF single
  THEN [k \in 1..(NumFields - 1) |-> SingleEntry(b, k, env_index)]
  ELSE [k \in 1..(NumFields - 1) |->
          MultiEntry(b, k, env_index, EnvPlayerIndex(b.stamps, id, 0))]

\* raw_action_ after ParseAction
ParseRaw(b, single, id, env_index) ==
  IF single
  THEN [k \in 1..NumFields |-> SingleEntry(b, k - 1, env_index)]
  ELSE [k \in 1..NumFields |->
          MultiEntry(b, k - 1, env_index, EnvPlayerIndex(b.stamps, id, 0))]

\* action_specs_ after ParseAction: the gather branch stores player_num in
\* the leading dimension of the field's own ShapeSpec
ParseSpecs(specs, b, single, id) ==
  LET index == EnvPlayerIndex(b.stamps, id, 0) IN
  IF single \/ Continuous(index) THEN specs
  ELSE [k \in 1..Len(specs) |->
          IF IsPlayerAction(k - 1)
          THEN [specs[k] EXCEPT ![1] = Len(index)]
          ELSE specs[k]]

(* ------------------------------ state ---------------------------------- *)
VARIABLES
  env_id_,            \* Env::env_id_
  is_single_player_,  \* Env::is_single_player_
  elapsed_step_,      \* Env::elapsed_step_
  order_,             \* Env::order_
  sbq_,               \* Env::sbq_
  slice_,             \* Env::slice_: Stub, or the index in issued[e] of a slot
  action_batch_,      \* Env::action_batch_
  env_index_,         \* Env::env_index_
  raw_action_,        \* Env::raw_action_
  action_specs_,      \* Env::action_specs_
  pc,                 \* per driver: "idle", or "body" inside Reset/Step
  call,               \* per driver: the EnvStep call in progress or last made
  parsed,             \* per driver: env_index_ read by the last ParseAction
  ever_reset,         \* per driver: some EnvStep so far had reset = true
  batch,              \* the ActionBatch the scheduler hands to SetAction
  issued,             \* per driver: the StateSlots handed out to it, in order
  slots,              \* queue storage: slots[q][round][order]
  round,              \* per queue: the round whose slot space is open
  given,              \* per queue and round: the driver given each order
  out,                \* per queue: the batches the consumer has retrieved
  ncalls              \* EnvStep calls issued so far

driver == <<env_id_, is_single_player_, elapsed_step_, order_, sbq_, slice_,
            action_batch_, env_index_, raw_action_, action_specs_,
            pc, call, parsed, ever_reset>>
queue == <<issued, slots, round, given, out>>
vars == <<driver, queue, batch, ncalls>>

\* the drivers of the pool, by position
Pool == DOMAIN elapsed_step_
\* the ordinals of a round: one expected slot per driver of the pool
Orders == 0..(Cardinality(Pool) - 1)
Queues == DOMAIN round
Rounds == 0..(MaxRounds - 1)
\* stamp sequences of length n over the ids 0..maxid
Stamps(n, maxid) == [1..n -> 0..maxid]
Batches(maxrows, maxid) ==
  {[stamps |-> s, nenv |-> maxid + 1] :
     s \in UNION {Stamps(n, maxid) : n \in 0..maxrows}}

\* call[e]: n counts the EnvStep calls made on e; reset, sbq, order are the
\* arguments of the latest one, round the round open in sbq when it was
\* issued, pre the step counter it found, steps the number of reset = false
\* calls since the last reset = true call, nalloc the Allocate calls its body
\* has made, players and isdone the player_num and the IsDone result of the
\* latest of them, result how the call ended, signalled the done_write its
\* PostProcess ran
NoCall == [n |-> 0, reset |-> FALSE, sbq |-> None, order |-> None,
           round |-> None, pre |-> -1, steps |-> 0, nalloc |-> 0,
           players |-> 0, isdone |-> FALSE, result |-> "none",
           signalled |-> None]

\* storage of a slot nobody has reserved
FreeSlot == [allocated |-> FALSE, player_num |-> 0, stamped |-> FALSE,
             done |-> FALSE, env_id |-> None, elapsed_step |-> None,
             players_env_id |-> <<>>, ready |-> FALSE]

(* ---------------------------- construction ----------------------------- *)
\* Env::Env for every driver of pool, with env_id = position, all of one
\* EnvSpec (single: max_num_players == 1); the queues start with round 0 open
Construct(pool, single, b, nqueues) ==
  /\ env_id_ = [e \in pool |-> e]
  /\ is_single_player_ = [e \in pool |-> single]
  /\ elapsed_step_ = [e \in pool |-> -1]
  /\ order_ = [e \in pool |-> None]
  /\ sbq_ = [e \in pool |-> None]
  /\ slice_ = [e \in pool |-> Stub]
  /\ action_batch_ = [e \in pool |-> NullBatch]
  /\ env_index_ = [e \in pool |-> None]
  /\ raw_action_ = [e \in pool |-> <<>>]
  /\ action_specs_ = [e \in pool |-> ActionSpecShapes]
  /\ pc = [e \in pool |-> "idle"]
  /\ call = [e \in pool |-> NoCall]
  /\ parsed = [e \in pool |-> None]
  /\ ever_reset = [e \in pool |-> FALSE]
  /\ batch = b
  /\ issued = [e \in pool |-> <<>>]
  /\ slots = [q \in 1..nqueues |->
               [r \in Rounds |->
                 [o \in 0..(Cardinality(pool) - 1) |-> FreeSlot]]]
  /\ round = [q \in 1..nqueues |-> 0]
  /\ given = [q \in 1..nqueues |->
               [r \in Rounds |->
                 [o \in 0..(Cardinality(pool) - 1) |-> None]]]
  /\ out = [q \in 1..nqueues |-> <<>>]
  /\ ncalls = 0

(* ------------------------------ SetAction ------------------------------ *)
\* env_index addresses a row of the batch's per-environment fields and, for
\* a single-player driver, of its per-player fields
ValidIndex(e, idx) ==
  /\ idx \in 0..(batch.nenv - 1)
  /\ is_single_player_[e] => idx < Len(batch.stamps)

SetAction(e, idx) ==
  /\ pc[e] = "idle"
  /\ ValidIndex(e, idx)
  /\ action_batch_' = [action_batch_ EXCEPT ![e] = batch]
  /\ env_index_' = [env_index_ EXCEPT ![e] = idx]
  /\ UNCHANGED <<env_id_, is_single_player_, elapsed_step_, order_, sbq_,
                 slice_, raw_action_, action_specs_, pc, call, parsed,
                 ever_reset, queue, batch, ncalls>>

(* ----------------------------- ParseAction ----------------------------- *)
\* the effect of ParseAction on the driver's members
DoParseAction(e) ==
  /\ raw_action_' = [raw_action_ EXCEPT ![e] =
       ParseRaw(action_batch_[e], is_single_player_[e], env_id_[e],
                env_index_[e])]
  /\ action_specs_' = [action_specs_ EXCEPT ![e] =
       ParseSpecs(action_specs_[e], action_batch_[e], is_single_player_[e],
                  env_id_[e])]
  /\ parsed' = [parsed EXCEPT ![e] = env_index_[e]]

\* ParseAction called directly (it is a public method)
ParseAction(e) ==
  /\ pc[e] = "idle"
  /\ action_batch_[e] # NullBatch
  /\ DoParseAction(e)
  /\ UNCHANGED <<env_id_, is_single_player_, elapsed_step_, order_, sbq_,
                 slice_, action_batch_, env_index_, pc, call, ever_reset,
                 queue, batch, ncalls>>

(* ------------------ the ParseAction specification ---------------------- *)
\* one driver with any id, any batch of up to MaxRows player rows
InitParse ==
  \E id \in 0..MaxEnvId, single \in BOOLEAN, b \in Batches(MaxRows, MaxEnvId) :
     Construct({id}, single, b, 1)

NextParse ==
  \E e \in Pool :
     \/ \E idx \in 0..MaxEnvId : SetAction(e, idx)
     \/ ParseAction(e)

SpecParse == InitParse /\ [][NextParse]_vars

(* ------------------------- StateBufferQueue ---------------------------- *)
\* StateBufferQueue::Allocate(player_num, order), called by driver e: the
\* slot of ordinal order in the open round of queue q is reserved for
\* player_num player rows, and a new StateSlot (a WritableSlice with its own
\* done_write) is handed out
QueueAllocate(q, e, player_num, order) ==
  [sbq |-> q, round |-> round[q], order |-> order, callno |-> call[e].n,
   signals |-> 0]

QueueReserve(q, player_num, order) ==
  [slots EXCEPT ![q][round[q]][order] =
     [FreeSlot EXCEPT !.allocated = TRUE, !.player_num = player_num]]

\* the done_write of the h-th StateSlot handed to e: marks the slot it was
\* reserved at, and only that slot, ready
DoneWrite(e, h) ==
  /\ issued' = [issued EXCEPT ![e][h].signals = @ + 1]
  /\ slots' = [slots EXCEPT
       ![issued[e][h].sbq][issued[e][h].round][issued[e][h].order].ready = TRUE]

\* every expected slot of the open round of q is complete
RoundComplete(q) ==
  /\ round[q] \in Rounds
  /\ \A o \in Orders : slots[q][round[q]][o].ready

\* the assembled batch of round r of queue q: one row per ordinal
Assemble(q, r) ==
  [o \in Orders |->
     [env_id |-> slots[q][r][o].env_id,
      elapsed_step |-> slots[q][r][o].elapsed_step,
      done |-> slots[q][r][o].done,
      players_env_id |-> slots[q][r][o].players_env_id]]

\* the consumer's retrieval: yields the batch of the open round once it is
\* complete and opens the next round's slot space
Retrieve(q) ==
  /\ RoundComplete(q)
  /\ out' = [out EXCEPT ![q] = Append(@, Assemble(q, round[q]))]
  /\ round' = [round EXCEPT ![q] = @ + 1]
  /\ UNCHANGED <<driver, issued, slots, given, batch, ncalls>>

(* ------------------------------ scheduler ------------------------------ *)
\* The caller of EnvStep hands out round-unique ordinals: in the open round
\* of q, order is free, or e already has it and its output is still absent
\* (the call is re-issued)
MayIssue(e, q, order) ==
  /\ round[q] \in Rounds
  /\ \A o \in Orders : given[q][round[q]][o] = e => o = order
  /\ \/ given[q][round[q]][order] = None
     \/ /\ given[q][round[q]][order] = e
        /\ ~slots[q][round[q]][order].ready

(* ------------------------------- EnvStep ------------------------------- *)
\* mutant: reset does not clear the counter
PreProcess_NoReset(elapsed, reset) == elapsed + 1

\* mutant: a step on a driver that was never started leaves the counter
PreProcess_StepFromUnset(elapsed, reset) ==
  IF reset THEN 0 ELSE IF elapsed = -1 THEN -1 ELSE elapsed + 1

\* PreProcess(sbq, order, reset): the new step counter
PreProcess(elapsed, reset) == IF reset THEN 0 ELSE elapsed + 1

\* mutant: PreProcess stores the queue only on the driver's first call
EnvStep_StaleQueue(e, q, order, reset) ==
  /\ pc[e] = "idle"
  /\ MayIssue(e, q, order)
  /\ ~reset => (action_batch_[e] # NullBatch /\ elapsed_step_[e] < MaxStep)
  /\ sbq_' = [sbq_ EXCEPT ![e] = IF @ = None THEN q ELSE @]
  /\ order_' = [order_ EXCEPT ![e] = order]
  /\ elapsed_step_' = [elapsed_step_ EXCEPT ![e] = PreProcess(@, reset)]
  /\ IF reset
     THEN UNCHANGED <<raw_action_, action_specs_, parsed>>
     ELSE DoParseAction(e)
  /\ pc' = [pc EXCEPT ![e] = "body"]
  /\ call' = [call EXCEPT ![e] =
       [n |-> @.n + 1, reset |-> reset, sbq |-> q, order |-> order,
        round |-> round[q], pre |-> elapsed_step_[e],
        steps |-> IF reset THEN 0 ELSE @.steps + 1, nalloc |-> 0,
        players |-> 0, isdone |-> FALSE, result |-> "running",
        signalled |-> None]]
  /\ ever_reset' = [ever_reset EXCEPT ![e] = @ \/ reset]
  /\ given' = [given EXCEPT ![q][round[q]][order] = e]
  /\ ncalls' = ncalls + 1
  /\ UNCHANGED <<env_id_, is_single_player_, slice_, action_batch_,
                 env_index_, batch, issued, slots, round, out>>

\* EnvStep up to the entry of the virtual Reset/Step: PreProcess, then for a
\* step ParseAction.  All of it is private to the driver.
EnvStep(e, q, order, reset) ==
  /\ pc[e] = "idle"
  /\ MayIssue(e, q, order)
  /\ ~reset => (action_batch_[e] # NullBatch /\ elapsed_step_[e] < MaxStep)
  /\ sbq_' = [sbq_ EXCEPT ![e] = q]
  /\ order_' = [order_ EXCEPT ![e] = order]
  /\ elapsed_step_' = [elapsed_step_ EXCEPT ![e] = PreProcess(@, reset)]
  /\ IF reset
     THEN UNCHANGED <<raw_action_, action_specs_, parsed>>
     ELSE DoParseAction(e)
  /\ pc' = [pc EXCEPT ![e] = "body"]
  /\ call' = [call EXCEPT ![e] =
       [n |-> @.n + 1, reset |-> reset, sbq |-> q, order |-> order,
        round |-> round[q], pre |-> elapsed_step_[e],
        steps |-> IF reset THEN 0 ELSE @.steps + 1, nalloc |-> 0,
        players |-> 0, isdone |-> FALSE, result |-> "running",
        signalled |-> None]]
  /\ ever_reset' = [ever_reset EXCEPT ![e] = @ \/ reset]
  /\ given' = [given EXCEPT ![q][round[q]][order] = e]
  /\ ncalls' = ncalls + 1
  /\ UNCHANGED <<env_id_, is_single_player_, slice_, action_batch_,
                 env_index_, batch, issued, slots, round, out>>

\* mutant: the stamping loop stops one player row short
Stamp_ShortLoop(e, player_num, isdone) ==
  [done |-> isdone,
   env_id |-> env_id_[e],
   elapsed_step |-> elapsed_step_[e],
   players_env_id |-> [i \in 1..player_num |->
                         IF i < player_num THEN env_id_[e] ELSE None]]

\* what Allocate stamps into the slot it reserved: done, info:env_id,
\* elapsed_step, and info:players.env_id for each of the player_num rows
Stamp(e, player_num, isdone) ==
  [done |-> isdone,
   env_id |-> env_id_[e],
   elapsed_step |-> elapsed_step_[e],
   players_env_id |-> [i \in 1..player_num |-> env_id_[e]]]

\* slice_ = sbq_->Allocate(player_num, order): the slot is reserved and its
\* StateSlot is held in slice_
Reserve(e, player_num, order) ==
  /\ pc[e] = "body"
  /\ call[e].nalloc < MaxAlloc
  /\ round[sbq_[e]] \in Rounds
  /\ issued' = [issued EXCEPT ![e] =
       Append(@, QueueAllocate(sbq_[e], e, player_num, order))]
  /\ slice_' = [slice_ EXCEPT ![e] = Len(issued[e]) + 1]

\* the body of Allocate with the ordinal handed to the queue made explicit
AllocateAt(e, order, player_num, isdone) ==
  /\ Reserve(e, player_num, order)
  /\ slots' = [QueueReserve(sbq_[e], player_num, order)
                 EXCEPT ![sbq_[e]][round[sbq_[e]]][order] =
       [@ EXCEPT !.stamped = TRUE,
                 !.done = Stamp(e, player_num, isdone).done,
                 !.env_id = Stamp(e, player_num, isdone).env_id,
                 !.elapsed_step = Stamp(e, player_num, isdone).elapsed_step,
                 !.players_env_id =
                    Stamp(e, player_num, isdone).players_env_id]]
  /\ call' = [call EXCEPT ![e].nalloc = @ + 1, ![e].players = player_num,
                          ![e].isdone = isdone]
  /\ UNCHANGED <<env_id_, is_single_player_, elapsed_step_, order_, sbq_,
                 action_batch_, env_index_, raw_action_, action_specs_, pc,
                 parsed, ever_reset, batch, round, given, out, ncalls>>

\* mutant: the slot is asked for at the driver's id, not at order_
Allocate_AtEnvId(e, player_num, isdone) ==
  AllocateAt(e, env_id_[e], player_num, isdone)

\* mutant: the slot is asked for at ordinal 0, whatever order_ is
Allocate_AtZero(e, player_num, isdone) ==
  AllocateAt(e, 0, player_num, isdone)

\* Allocate(player_num), called by the Reset/Step body; isdone is what the
\* environment's IsDone returns
Allocate(e, player_num, isdone) ==
  AllocateAt(e, order_[e], player_num, isdone)

\* mutant: the throwing Allocate asks for the slot of ordinal 0
AllocateThrow_AtZero(e, player_num) ==
  /\ Reserve(e, player_num, 0)
  /\ slots' = QueueReserve(sbq_[e], player_num, 0)
  /\ call' = [call EXCEPT ![e].nalloc = @ + 1, ![e].players = player_num,
                          ![e].result = "thrown"]
  /\ pc' = [pc EXCEPT ![e] = "idle"]
  /\ UNCHANGED <<env_id_, is_single_player_, elapsed_step_, order_, sbq_,
                 action_batch_, env_index_, raw_action_, action_specs_,
                 parsed, ever_reset, batch, round, given, out, ncalls>>

\* Allocate(player_num) when IsDone is not overridden: the slot is reserved
\* and held in slice_, then IsDone throws before anything is stamped and the
\* exception leaves EnvStep
AllocateThrow(e, player_num) ==
  /\ Reserve(e, player_num, order_[e])
  /\ slots' = QueueReserve(sbq_[e], player_num, order_[e])
  /\ call' = [call EXCEPT ![e].nalloc = @ + 1, ![e].players = player_num,
                          ![e].result = "thrown"]
  /\ pc' = [pc EXCEPT ![e] = "idle"]
  /\ UNCHANGED <<env_id_, is_single_player_, elapsed_step_, order_, sbq_,
                 action_batch_, env_index_, raw_action_, action_specs_,
                 parsed, ever_reset, batch, round, given, out, ncalls>>

\* mutant: the throwing call puts the step counter back
BodyThrow_Rollback(e) ==
  /\ pc[e] = "body"
  /\ elapsed_step_' = [elapsed_step_ EXCEPT ![e] = call[e].pre]
  /\ call' = [call EXCEPT ![e].result = "thrown"]
  /\ pc' = [pc EXCEPT ![e] = "idle"]
  /\ UNCHANGED <<env_id_, is_single_player_, order_, sbq_,
                 slice_, action_batch_, env_index_, raw_action_,
                 action_specs_, parsed, ever_reset, queue, batch, ncalls>>

\* Reset or Step throws (the base class's "not implemented"): the exception
\* leaves EnvStep, PostProcess is not reached
BodyThrow(e) ==
  /\ pc[e] = "body"
  /\ call' = [call EXCEPT ![e].result = "thrown"]
  /\ pc' = [pc EXCEPT ![e] = "idle"]
  /\ UNCHANGED <<env_id_, is_single_player_, elapsed_step_, order_, sbq_,
                 slice_, action_batch_, env_index_, raw_action_,
                 action_specs_, parsed, ever_reset, queue, batch, ncalls>>

\* mutant: done_write runs while the Reset/Step body is still running
PostProcess_Early(e) ==
  /\ pc[e] = "body"
  /\ call[e].signalled = None
  /\ IF slice_[e] = Stub
     THEN UNCHANGED <<issued, slots>>
     ELSE DoneWrite(e, slice_[e])
  /\ call' = [call EXCEPT ![e].signalled = slice_[e]]
  /\ UNCHANGED <<env_id_, is_single_player_, elapsed_step_, order_, sbq_,
                 slice_, action_batch_, env_index_, raw_action_,
                 action_specs_, pc, parsed, ever_reset, batch, round, given,
                 out, ncalls>>

\* mutant: PostProcess returns without running done_write
PostProcess_NoSignal(e) ==
  /\ pc[e] = "body"
  /\ call' = [call EXCEPT ![e].result = "returned"]
  /\ pc' = [pc EXCEPT ![e] = "idle"]
  /\ UNCHANGED <<env_id_, is_single_player_, elapsed_step_, order_, sbq_,
                 slice_, action_batch_, env_index_, raw_action_,
                 action_specs_, parsed, ever_reset, queue, batch, ncalls>>

\* mutant: a call that allocated nothing runs the stub
PostProcess_OwnCallOnly(e) ==
  /\ pc[e] = "body"
  /\ IF slice_[e] = Stub \/ call[e].nalloc = 0
     THEN UNCHANGED <<issued, slots>>
     ELSE DoneWrite(e, slice_[e])
  /\ call' = [call EXCEPT ![e].result = "returned",
                          ![e].signalled =
                             IF call[e].nalloc = 0 THEN Stub ELSE slice_[e]]
  /\ pc' = [pc EXCEPT ![e] = "idle"]
  /\ UNCHANGED <<env_id_, is_single_player_, elapsed_step_, order_, sbq_,
                 slice_, action_batch_, env_index_, raw_action_,
                 action_specs_, parsed, ever_reset, batch, round, given, out,
                 ncalls>>

\* Reset/Step returns and PostProcess runs slice_.done_write(): the stub
\* logs the diagnostic, a slot's done_write signals that slot
PostProcess(e) ==
  /\ pc[e] = "body"
  /\ IF slice_[e] = Stub
     THEN UNCHANGED <<issued, slots>>
     ELSE DoneWrite(e, slice_[e])
  /\ call' = [call EXCEPT ![e].result = "returned",
                          ![e].signalled = slice_[e]]
  /\ pc' = [pc EXCEPT ![e] = "idle"]
  /\ UNCHANGED <<env_id_, is_single_player_, elapsed_step_, order_, sbq_,
                 slice_, action_batch_, env_index_, raw_action_,
                 action_specs_, parsed, ever_reset, batch, round, given, out,
                 ncalls>>

(* ------------------ the driver/queue specification --------------------- *)
\* NumEnvs drivers of one EnvSpec, one queue, any Reset/Step/IsDone
\* behaviour: a body allocates 0..MaxAlloc times, returns or throws
NumQueues == 1

\* the round's ActionBatch: MaxStepRows player rows dealt to the drivers in
\* turn, so that with several rows a driver's rows are scattered
StepBatch ==
  [stamps |-> [i \in 1..MaxStepRows |-> (i - 1) % NumEnvs], nenv |-> NumEnvs]

Init ==
  \E single \in BOOLEAN :
     Construct(0..(NumEnvs - 1), single, StepBatch, NumQueues)

Next ==
  \/ \E e \in Pool : SetAction(e, e)
  \/ \E e \in Pool, q \in Queues, o \in Orders, reset \in BOOLEAN :
       ncalls < MaxCalls /\ EnvStep(e, q, o, reset)
  \/ \E e \in Pool, n \in 1..MaxPlayers, d \in BOOLEAN : Allocate(e, n, d)
  \/ \E e \in Pool, n \in 1..MaxPlayers : AllocateThrow(e, n)
  \/ \E e \in Pool : BodyThrow(e)
  \/ \E e \in Pool : PostProcess(e)
  \/ \E q \in Queues : Retrieve(q)

Spec == Init /\ [][Next]_vars

(* --------------------- the two-queue specification --------------------- *)
\* the same pool stepped against MaxQueues queues, so that successive
\* EnvStep calls on a driver may name different queues and ordinals
MaxQueues == 2

InitQueues ==
  \E single \in BOOLEAN :
     Construct(0..(NumEnvs - 1), single, StepBatch, MaxQueues)

\* what Allocate stamps plays no part here: one player row, not done
NextQueues ==
  \/ \E e \in Pool : SetAction(e, e)
  \/ \E e \in Pool, q \in Queues, o \in Orders, reset \in BOOLEAN :
       ncalls < MaxCalls /\ EnvStep(e, q, o, reset)
  \/ \E e \in Pool : Allocate(e, 1, FALSE)
  \/ \E e \in Pool : AllocateThrow(e, 1)
  \/ \E e \in Pool : BodyThrow(e)
  \/ \E e \in Pool : PostProcess(e)
  \/ \E q \in Queues : Retrieve(q)

SpecQueues == InitQueues /\ [][NextQueues]_vars

(* ---------------------- the round specification ------------------------ *)
\* The same pool driven by conforming environments: every Reset/Step body
\* calls Allocate exactly once and returns; the scheduler issues one EnvStep
\* per driver and round, with any assignment of the round's ordinals
NextRound ==
  \/ \E e \in Pool : SetAction(e, e)
  \/ \E e \in Pool, q \in Queues, o \in Orders, reset \in BOOLEAN :
       EnvStep(e, q, o, reset)
  \/ \E e \in Pool, n \in 1..MaxPlayers, d \in BOOLEAN :
       call[e].nalloc = 0 /\ Allocate(e, n, d)
  \/ \E e \in Pool : call[e].nalloc = 1 /\ PostProcess(e)
  \/ \E q \in Queues : Retrieve(q)

SpecRound == Init /\ [][NextRound]_vars

\* Fair scheduling of the round: a worker thread that can proceed eventually
\* does (the body reaches its Allocate, returns, and PostProcess runs), and
\* the consumer waiting on a complete round eventually takes it
FairRound ==
  /\ \A e \in 0..(NumEnvs - 1) :
       /\ WF_vars(\E n \in 1..MaxPlayers, d \in BOOLEAN :
                     call[e].nalloc = 0 /\ Allocate(e, n, d))
       /\ WF_vars(call[e].nalloc = 1 /\ PostProcess(e))
  /\ \A q \in 1..NumQueues : WF_vars(Retrieve(q))

SpecRoundFair == Init /\ [][NextRound]_vars /\ FairRound

(* ----------------------- the step specification ----------------------- *)
\* One driver with any id and any batch of up to MaxRows player rows, taken
\* through EnvStep calls whose Reset/Step body does not allocate: it returns
\* or throws
NextStep ==
  \E e \in Pool :
     \/ \E idx \in 0..MaxEnvId : SetAction(e, idx)
     \/ \E q \in Queues, o \in Orders, reset \in BOOLEAN :
          ncalls < MaxCalls /\ EnvStep(e, q, o, reset)
     \/ BodyThrow(e)
     \/ PostProcess(e)

SpecStep == InitParse /\ [][NextStep]_vars

(* ======================= properties of the driver ====================== *)
\* the step counter the latest EnvStep call on e must have left
CounterAfter(e) == IF call[e].reset THEN 0 ELSE call[e].pre + 1

\* C1: step counter law.  A driver no EnvStep was called on has counter -1;
\* after an EnvStep call with reset = true the counter is 0, after one with
\* reset = false it is the value the call found plus 1; and the counter is
\* -1 only while no call with reset = true has been made.
C1_StepCounterLaw ==
  \A e \in Pool :
    /\ call[e].n = 0 => elapsed_step_[e] = -1
    /\ call[e].n > 0 => elapsed_step_[e] = CounterAfter(e)
    /\ elapsed_step_[e] = -1 => ~ever_reset[e]

\* a driver reset, stepped and reset again: the counter went 0, 1, 0
C1_Witness ==
  \E e \in Pool :
    /\ call[e].n = 3 /\ call[e].reset /\ call[e].pre = 1
    /\ call[e].result = "returned"
    /\ elapsed_step_[e] = 0

\* C2 (as claimed): every StateSlot handed out by the queue's Allocate has
\* its completion signal invoked exactly once: never twice, and once by the
\* time the EnvStep call that allocated it has returned.
C2_SignalledExactlyOnce ==
  \A e \in Pool : \A h \in 1..Len(issued[e]) :
    /\ issued[e][h].signals <= 1
    /\ (issued[e][h].callno = call[e].n /\ call[e].result = "returned")
         => issued[e][h].signals = 1

(* ======================= properties of ParseAction ===================== *)
\* the rows of the batch stamped with id
Matched(b, id) == {r \in 0..(Len(b.stamps) - 1) : b.stamps[r + 1] = id}

\* the j-th smallest element of the set of naturals M
Nth(M, j) == CHOOSE k \in M : Cardinality({m \in M : m < k}) = j - 1

\* the content of the rows M of batch field i, in batch order
RowsOf(b, i, M) == [j \in 1..Cardinality(M) |-> Cell(b, i, Nth(M, j))]

\* M is a contiguous run of row indices
IsRun(M) == M # {} /\ \A x \in M, y \in M : \A k \in x..y : k \in M

PlayerFields == {i \in 0..(NumFields - 1) : IsPlayerAction(i)}
EnvFields == {i \in 0..(NumFields - 1) : ~IsPlayerAction(i)}

\* C3: for a multi-player driver and every arrangement of the id stamps,
\* each per-player entry of the RawAction holds exactly the rows of its
\* batch field stamped with the driver's id, in batch order; and where the
\* slice applies, slice and per-row copy have the same content.
C3_MatchedRowsInOrder ==
  \A e \in Pool :
    (parsed[e] # None /\ ~is_single_player_[e]) =>
      \A i \in PlayerFields :
        LET index == EnvPlayerIndex(batch.stamps, env_id_[e], 0) IN
        /\ raw_action_[e][i + 1].rows =
             RowsOf(batch, i, Matched(batch, env_id_[e]))
        /\ Continuous(index) =>
             Slice(batch, i, ParseStart(index), ParseEnd(index)).rows =
               Gather(batch, i, index).rows

\* stamps [0,1,0,2,2]: driver 0 gets a 2-row owned buffer with rows 0 and 2
C3_Witness ==
  \E e \in Pool :
    /\ parsed[e] # None /\ ~is_single_player_[e] /\ env_id_[e] = 0
    /\ batch.stamps = <<0, 1, 0, 2, 2>>
    /\ raw_action_[e][3].kind = "owned"
    /\ raw_action_[e][3].rows = <<<<2, 0>>, <<2, 2>>>>

\* C4: contiguity detection is exact.  A per-player entry is the zero-copy
\* slice [start, end) exactly when the matched rows form a contiguous run,
\* and then the slice is that run; otherwise the entry is a per-row gather.
C4_ContiguityExact ==
  \A e \in Pool :
    (parsed[e] # None /\ ~is_single_player_[e]) =>
      \A i \in PlayerFields :
        LET M == Matched(batch, env_id_[e])
            a == raw_action_[e][i + 1] IN
        IF IsRun(M)
        THEN /\ a.kind = "slice"
             /\ M = a.start..(a.end - 1)
             /\ a.end - a.start = Cardinality(M)
        ELSE a.kind = "owned"

\* stamps [0,0,1,2,2]: driver 2 gets the slice [3,5)
C4_Witness ==
  \E e \in Pool :
    /\ parsed[e] # None /\ ~is_single_player_[e] /\ env_id_[e] = 2
    /\ batch.stamps = <<0, 0, 1, 2, 2>>
    /\ raw_action_[e][3].kind = "slice"
    /\ raw_action_[e][3].start = 3 /\ raw_action_[e][3].end = 5

\* C8: for a single-player driver ParseAction yields one entry per field:
\* a per-player field gives the length-1 slice [env_index, env_index + 1),
\* a per-environment field the single row env_index, whatever the stamps.
C8_SinglePlayerEntries ==
  \A e \in Pool :
    (parsed[e] # None /\ is_single_player_[e]) =>
      /\ Len(raw_action_[e]) = NumFields
      /\ \A i \in PlayerFields :
           /\ raw_action_[e][i + 1].kind = "slice"
           /\ raw_action_[e][i + 1].field = i
           /\ raw_action_[e][i + 1].start = parsed[e]
           /\ raw_action_[e][i + 1].end = parsed[e] + 1
           /\ raw_action_[e][i + 1].rows = <<Cell(batch, i, parsed[e])>>
      /\ \A i \in EnvFields :
           /\ raw_action_[e][i + 1].kind = "row"
           /\ raw_action_[e][i + 1].field = i
           /\ raw_action_[e][i + 1].rows = <<Cell(batch, i, parsed[e])>>

\* a single-player driver with id 0 parsed row 1 of a batch in which no row
\* carries its id
C8_Witness ==
  \E e \in Pool :
    /\ parsed[e] = 1 /\ is_single_player_[e] /\ env_id_[e] = 0
    /\ batch.stamps = <<2, 1, 2>>
    /\ Len(raw_action_[e]) = 4

(* ===================== properties of the slot queue ==================== *)
\* C5: slot-queue ordering law.  Whatever the interleaving of the Allocate
\* calls and the order of the completion signals, row i of every retrieved
\* batch holds the env id of the driver given order i in that round, and its
\* elapsed step and done as long as that driver's call of the round is its
\* latest.
C5_OrderingLaw ==
  \A q \in Queues : \A r \in 1..Len(out[q]) : \A o \in Orders :
    LET e == given[q][r - 1][o]
        row == out[q][r][o] IN
    /\ e \in Pool
    /\ row.env_id = env_id_[e]
    /\ (call[e].sbq = q /\ call[e].round = r - 1) =>
         /\ row.elapsed_step = CounterAfter(e)
         /\ row.done = call[e].isdone

\* two rounds retrieved; driver 1 had order 0 in the first and order 1 in
\* the second
C5_Witness ==
  \E q \in Queues :
    /\ Len(out[q]) = 2
    /\ given[q][0][0] = 1 /\ given[q][1][1] = 1
    /\ out[q][1][0].env_id = 1 /\ out[q][2][1].env_id = 1

\* the StateSlots handed out for slot (q, r, o), as <<driver, index>>
HandlesAt(q, r, o) ==
  {x \in UNION {{<<e, h>> : h \in 1..Len(issued[e])} : e \in Pool} :
     /\ issued[x[1]][x[2]].sbq = q
     /\ issued[x[1]][x[2]].round = r
     /\ issued[x[1]][x[2]].order = o}

\* C6: the consumer has retrieved a round only if, for every expected slot
\* of it, the completion signal has been invoked and no Reset/Step body that
\* was handed the slot is still running (its writing is finished).
C6_RetrievedOnlyWhenSignalled ==
  \A q \in Queues : \A r \in Rounds : \A o \in Orders :
    r < round[q] =>
      /\ \E x \in HandlesAt(q, r, o) : issued[x[1]][x[2]].signals >= 1
      /\ \A x \in HandlesAt(q, r, o) :
           ~(pc[x[1]] = "body" /\ issued[x[1]][x[2]].callno = call[x[1]].n)

\* a round has been retrieved and a driver is already inside the body of
\* its next call
C6_Witness ==
  \E q \in Queues, e \in Pool :
    /\ round[q] = 1 /\ Len(out[q]) = 1
    /\ pc[e] = "body" /\ call[e].round = 1 /\ call[e].nalloc = 1

(* ==================== properties of one EnvStep call =================== *)
\* C7 (as claimed): every EnvStep call, reset or not, has produced a
\* RawAction with one entry per declared action field.
C7_RawActionEveryCall ==
  \A e \in Pool :
    call[e].n > 0 =>
      /\ Len(raw_action_[e]) = NumFields
      /\ \A i \in 0..(NumFields - 1) : raw_action_[e][i + 1].field = i

\* C7 (amended): every EnvStep call with reset = false has produced a
\* RawAction with one entry per declared action field, entry i taken from
\* batch field i, for single- and multi-player drivers; a call with
\* reset = true produces none (a driver only ever reset has no entries).
C7_RawActionEveryStep ==
  \A e \in Pool :
    /\ (call[e].n > 0 /\ ~call[e].reset) =>
         /\ Len(raw_action_[e]) = NumFields
         /\ \A i \in 0..(NumFields - 1) :
              /\ raw_action_[e][i + 1].field = i
              /\ \A k \in 1..Len(raw_action_[e][i + 1].rows) :
                   \E r \in 0..(Shape0(batch, i) - 1) :
                      raw_action_[e][i + 1].rows[k] = Cell(batch, i, r)
    /\ (call[e].n > 0 /\ parsed[e] = None) => raw_action_[e] = <<>>

\* a multi-player driver stepped on the gather path, after a reset
C7_Witness ==
  \E e \in Pool :
    /\ call[e].n = 2 /\ ~call[e].reset /\ ever_reset[e]
    /\ ~is_single_player_[e]
    /\ Len(raw_action_[e]) = NumFields
    /\ raw_action_[e][2].kind = "owned"

\* C9: while the StateSlot the latest Allocate of the current call returned
\* is held, its slot is reserved for player_num rows at the call's ordinal
\* and round and carries done = the IsDone result, env id = the driver's id,
\* elapsed step = the counter as updated by this call (the number of steps
\* since the last reset once the driver has been reset), and the driver's
\* id in each of the player_num per-player rows.
C9_AllocateStamps ==
  \A e \in Pool :
    (slice_[e] # Stub /\ call[e].result # "thrown") =>
      LET h == issued[e][slice_[e]]
          s == slots[h.sbq][h.round][h.order] IN
      h.callno = call[e].n =>
        /\ h.sbq = call[e].sbq /\ h.order = call[e].order
        /\ h.round = call[e].round
        /\ s.allocated /\ s.stamped
        /\ s.player_num = call[e].players
        /\ s.done = call[e].isdone
        /\ s.env_id = env_id_[e]
        /\ s.elapsed_step = CounterAfter(e)
        /\ (ever_reset[e] => s.elapsed_step = call[e].steps)
        /\ Len(s.players_env_id) = call[e].players
        /\ \A i \in 1..Len(s.players_env_id) :
             s.players_env_id[i] = env_id_[e]

\* a driver reset once and stepped once allocates two player rows, done
\* set, at order 1: the slot reads elapsed step 1
C9_Witness ==
  \E e \in Pool :
    /\ slice_[e] # Stub /\ pc[e] = "body" /\ call[e].n = 2
    /\ ~call[e].reset /\ ever_reset[e] /\ call[e].order = 1
    /\ issued[e][slice_[e]].callno = 2
    /\ slots[call[e].sbq][call[e].round][1].elapsed_step = 1
    /\ slots[call[e].sbq][call[e].round][1].done
    /\ slots[call[e].sbq][call[e].round][1].players_env_id = <<e, e>>

\* C10 (as claimed): an EnvStep call that returns without its body having
\* called Allocate only emits the diagnostic: its PostProcess runs the stub
\* and signals no slot.
C10_NoAllocateOnlyDiagnostic ==
  \A e \in Pool :
    (call[e].result = "returned" /\ call[e].nalloc = 0) =>
      call[e].signalled = Stub
(* ================== properties of the zero-player round ================ *)
\* C11: a multi-player driver none of whose rows is in the batch is stepped
\* all the same: ParseAction completes and the Step body is entered with a
\* RawAction whose per-player entries are 0-row buffers and whose
\* per-environment entries are the single row env_index.
C11_ZeroPlayerRound ==
  \A e \in Pool :
    (/\ call[e].n > 0 /\ ~call[e].reset /\ ~is_single_player_[e]
     /\ Matched(batch, env_id_[e]) = {}) =>
      /\ call[e].result \in {"running", "returned", "thrown"}
      /\ (call[e].result = "running" => pc[e] = "body")
      /\ Len(raw_action_[e]) = NumFields
      /\ \A i \in PlayerFields :
           /\ raw_action_[e][i + 1].rows = <<>>
           /\ raw_action_[e][i + 1].end - raw_action_[e][i + 1].start = 0
      /\ \A i \in EnvFields :
           raw_action_[e][i + 1].rows = <<Cell(batch, i, parsed[e])>>

\* driver 1 inside Step with stamps [0,2,0]: nothing of the batch is its
C11_Witness ==
  \E e \in Pool :
    /\ env_id_[e] = 1 /\ ~is_single_player_[e]
    /\ batch.stamps = <<0, 2, 0>>
    /\ pc[e] = "body" /\ ~call[e].reset
    /\ raw_action_[e][2].rows = <<>>
(* ====================== properties of a failing call =================== *)
\* the running EnvStep call on e ends in this step by an exception
Throws(e) == call[e].result = "running" /\ call'[e].result = "thrown"

\* C12: errors are local.  The step in which Reset, Step or IsDone throws
\* hands the error to the caller of that EnvStep (the call is over, its
\* PostProcess did not run) and changes nothing of any other driver: not
\* its step counter, its members, its call in progress, its StateSlots and
\* their completion status, nor the content of any slot given to it.
C12_ErrorsAreLocal ==
  [][\A e \in Pool :
       Throws(e) =>
         /\ pc'[e] = "idle" /\ call'[e].signalled = None
         /\ \A f \in Pool \ {e} :
              /\ elapsed_step_'[f] = elapsed_step_[f]
              /\ order_'[f] = order_[f] /\ sbq_'[f] = sbq_[f]
              /\ slice_'[f] = slice_[f]
              /\ raw_action_'[f] = raw_action_[f]
              /\ action_specs_'[f] = action_specs_[f]
              /\ pc'[f] = pc[f] /\ call'[f] = call[f]
              /\ issued'[f] = issued[f]
         /\ \A q \in Queues : \A r \in Rounds : \A o \in Orders :
              given[q][r][o] # e => slots'[q][r][o] = slots[q][r][o]
         /\ round' = round /\ out' = out]_vars

\* driver e's Allocate threw in IsDone at order 1 while the other driver
\* is inside its body with its slot at order 0 stamped
C12_Witness ==
  \E e \in Pool, f \in Pool, q \in Queues :
    /\ e # f
    /\ call[e].result = "thrown" /\ call[e].nalloc = 1 /\ call[e].order = 1
    /\ pc[f] = "body" /\ call[f].nalloc = 1 /\ call[f].order = 0
    /\ call[e].sbq = q /\ call[f].sbq = q /\ round[q] = 0
    /\ slots[q][0][0].stamped /\ ~slots[q][0][1].stamped
    /\ slots[q][0][1].allocated
(* ======================= properties of slot ownership ================== *)
\* the slot the StateSlot held in slice_[e] was reserved at
HeldSlot(e) ==
  <<issued[e][slice_[e]].sbq, issued[e][slice_[e]].round,
    issued[e][slice_[e]].order>>

\* C13: with round-unique orders no two drivers hold or write the same
\* slot.  Every StateSlot handed out for a slot went to the one driver given
\* that order in that round, a stamped slot carries that driver's output,
\* and the StateSlots two drivers hold are never for the same slot.
C13_SlotsAreDisjoint ==
  /\ \A q \in Queues : \A r \in Rounds : \A o \in Orders :
       /\ \A x \in HandlesAt(q, r, o) : x[1] = given[q][r][o]
       /\ slots[q][r][o].stamped =>
            /\ given[q][r][o] \in Pool
            /\ slots[q][r][o].env_id = env_id_[given[q][r][o]]
            /\ \A i \in 1..Len(slots[q][r][o].players_env_id) :
                 slots[q][r][o].players_env_id[i] = env_id_[given[q][r][o]]
  /\ \A e \in Pool, f \in Pool :
       (e # f /\ slice_[e] # Stub /\ slice_[f] # Stub) =>
          HeldSlot(e) # HeldSlot(f)

\* both drivers are inside their bodies, each with its own two-row slot of
\* round 0 stamped, driver 0 at order 1 and driver 1 at order 0
C13_Witness ==
  \E q \in Queues :
    /\ pc[0] = "body" /\ pc[1] = "body"
    /\ HandlesAt(q, 0, 0) = {<<1, 1>>} /\ HandlesAt(q, 0, 1) = {<<0, 1>>}
    /\ slots[q][0][0].stamped /\ slots[q][0][0].player_num = 2
    /\ slots[q][0][1].stamped /\ slots[q][0][1].player_num = 2
(* ===================== properties of round completion ================== *)
\* every driver of the pool has had an EnvStep issued in round r of queue q
AllIssued(q, r) ==
  round[q] = r /\ \A o \in Orders : given[q][r][o] # None

\* C14: once every driver of a round has had its EnvStep invoked, with
\* bodies that return after one Allocate and fair worker threads, the round
\* is eventually retrieved and the next round opened.
C14_RoundCompletes ==
  \A q \in 1..NumQueues : \A r \in Rounds :
    AllIssued(q, r) ~> (round[q] > r /\ Len(out[q]) > r)

\* the consumer has retrieved the last round the queue provides
C14_Witness ==
  \E q \in Queues :
    /\ round[q] = MaxRounds /\ Len(out[q]) = MaxRounds
    /\ \A e \in Pool : pc[e] = "idle" /\ call[e].result = "returned"
(* =================== properties of the declared specs ================== *)
\* C15 (as claimed): the driver's declared action-field ShapeSpecs are
\* immutable: after any sequence of EnvStep calls, the gather path and the
\* zero-player path included, action_specs_ equals its value at
\* construction, the leading -1 of the per-player fields included.
C15_ActionSpecsImmutable ==
  \A e \in Pool : action_specs_[e] = ActionSpecShapes
(* ================ properties of the per-environment fields ============= *)
\* a ParseAction on e takes effect in this step
Parses(e) == parsed'[e] # parsed[e] \/ raw_action_'[e] # raw_action_[e]

\* C16: ParseAction gives every per-environment field the single row at
\* env_index_, the index stored by the most recent SetAction, for single-
\* and multi-player drivers alike, whatever the number of matched player
\* rows (none included) and whichever path the per-player fields took.
C16_EnvFieldSingleRow ==
  [][\A e \in Pool :
       Parses(e) =>
         \A i \in EnvFields :
           /\ raw_action_'[e][i + 1].kind = "row"
           /\ raw_action_'[e][i + 1].field = i
           /\ raw_action_'[e][i + 1].start = env_index_[e]
           /\ raw_action_'[e][i + 1].end = env_index_[e] + 1
           /\ raw_action_'[e][i + 1].rows = <<Cell(batch, i, env_index_[e])>>
    ]_vars

\* multi-player driver 0 with stamps [1,0,1,0] and env_index 2: its player
\* rows 1 and 3 are gathered, its per-environment rows are row 2
C16_Witness ==
  \E e \in Pool :
    /\ ~is_single_player_[e] /\ env_id_[e] = 0
    /\ batch.stamps = <<1, 0, 1, 0>>
    /\ parsed[e] = 2 /\ env_index_[e] = 2
    /\ raw_action_[e][3].kind = "owned" /\ Len(raw_action_[e][3].rows) = 2
    /\ raw_action_[e][1].kind = "row" /\ raw_action_[e][1].start = 2
    /\ raw_action_[e][4].kind = "row" /\ raw_action_[e][4].start = 2
(* ================= properties of the order within EnvStep ============== *)
\* C17: within one EnvStep call the counter update (and for a step
\* ParseAction) comes before the Reset/Step body, the completion signal
\* after it.  So while the body runs, and after it has thrown, the step
\* counter and the stored queue and order are those of this call (nothing
\* is rolled back), and this call has invoked no completion signal.
C17_OrderWithinEnvStep ==
  \A e \in Pool :
    /\ (pc[e] = "body") <=> (call[e].result = "running")
    /\ (call[e].result \in {"running", "thrown"}) =>
         /\ elapsed_step_[e] = CounterAfter(e)
         /\ sbq_[e] = call[e].sbq /\ order_[e] = call[e].order
         /\ call[e].signalled = None
         /\ \A h \in 1..Len(issued[e]) :
              issued[e][h].callno = call[e].n => issued[e][h].signals = 0
    /\ (call[e].result = "running" /\ ~call[e].reset) =>
         parsed[e] = env_index_[e]
    /\ (call[e].result = "returned") => call[e].signalled # None

\* the second call on a driver, a step at order 1 after a reset, was thrown
\* out of by Step itself: the counter stays at 1, order_ at 1
C17_Witness ==
  \E e \in Pool :
    /\ call[e].n = 2 /\ ~call[e].reset /\ call[e].result = "thrown"
    /\ call[e].nalloc = 0 /\ call[e].pre = 0
    /\ elapsed_step_[e] = 1 /\ order_[e] = 1 /\ pc[e] = "idle"
(* ================= properties of the completion signal ================= *)
\* the running EnvStep call on e returns normally in this step
Returns(e) == call[e].result = "running" /\ call'[e].result = "returned"

\* the StateSlot most recently handed to e, Stub if there was none
LastAllocated(e) == IF Len(issued[e]) = 0 THEN Stub ELSE Len(issued[e])

\* C18: an EnvStep call that returns normally invokes exactly one
\* completion signal: that of the slot this driver allocated most recently,
\* in this call or in an earlier one, or the diagnostic stub if it never
\* allocated.  No other StateSlot is signalled, so of several slots
\* allocated by one call only the last is.
C18_OneSignalPerReturn ==
  [][\A e \in Pool :
       Returns(e) =>
         /\ call'[e].signalled = LastAllocated(e)
         /\ Len(issued'[e]) = Len(issued[e])
         /\ \A h \in 1..Len(issued[e]) :
              issued'[e][h].signals =
                issued[e][h].signals + (IF h = LastAllocated(e) THEN 1 ELSE 0)
         /\ \A f \in Pool \ {e} : issued'[f] = issued[f]
    ]_vars

\* a call that allocated nothing returned on a driver whose earlier call
\* allocated two slots: the second one has now been signalled twice, the
\* first one never
C18_Witness ==
  \E e \in Pool :
    /\ call[e].n = 2 /\ call[e].result = "returned" /\ call[e].nalloc = 0
    /\ Len(issued[e]) = 2 /\ call[e].signalled = 2
    /\ issued[e][1].signals = 0 /\ issued[e][2].signals = 2
(* ================== properties of the unstarted driver ================= *)
\* C19: the step counter is -1 exactly as long as no EnvStep call has been
\* made on the driver and is >= 0 from the first call on, whatever its
\* reset argument: a first call with reset = false finds -1 and leaves 0,
\* as a Reset does.
C19_UnstartedIffNoCall ==
  \A e \in Pool :
    /\ (elapsed_step_[e] = -1) <=> (call[e].n = 0)
    /\ (call[e].n > 0) => elapsed_step_[e] >= 0
    /\ (call[e].n = 1) => (call[e].pre = -1 /\ elapsed_step_[e] = 0)
    /\ (call[e].n > 0) => call[e].pre >= -1
    /\ (call[e].n > 1) => call[e].pre >= 0

\* the first call on a driver was a step, has returned, and the counter is 0
\* although the driver was never reset
C19_Witness ==
  \E e \in Pool :
    /\ call[e].n = 1 /\ ~call[e].reset /\ ~ever_reset[e]
    /\ call[e].result = "returned" /\ call[e].pre = -1
    /\ elapsed_step_[e] = 0
(* ============== properties of the queue and order in use =============== *)
\* the Reset/Step body of e calls Allocate in this step
Allocates(e) == Len(issued'[e]) = Len(issued[e]) + 1

\* C20: every Allocate made during an EnvStep call goes to the queue and
\* the ordinal that were passed to that same call, never to those of an
\* earlier call, whatever queues and ordinals the successive calls name: it
\* reserves that slot of that queue's open round and no other.
C20_AllocateUsesCallArguments ==
  [][\A e \in Pool :
       Allocates(e) =>
         /\ call[e].result = "running"
         /\ issued'[e][Len(issued'[e])].sbq = call[e].sbq
         /\ issued'[e][Len(issued'[e])].order = call[e].order
         /\ issued'[e][Len(issued'[e])].round = round[call[e].sbq]
         /\ issued'[e][Len(issued'[e])].callno = call[e].n
         /\ slots'[call[e].sbq][round[call[e].sbq]][call[e].order].allocated
         /\ \A q \in Queues : \A r \in Rounds : \A o \in Orders :
              <<q, r, o>> # <<call[e].sbq, round[call[e].sbq], call[e].order>>
                => slots'[q][r][o] = slots[q][r][o]
    ]_vars

\* a driver's first call allocated at order 0 of queue 1, its second call
\* at order 1 of queue 2
C20_Witness ==
  \E e \in Pool :
    /\ call[e].n = 2 /\ call[e].sbq = 2 /\ call[e].order = 1
    /\ Len(issued[e]) = 2
    /\ issued[e][1].sbq = 1 /\ issued[e][1].order = 0
    /\ issued[e][1].callno = 1
    /\ issued[e][2].sbq = 2 /\ issued[e][2].order = 1
    /\ issued[e][2].callno = 2
    /\ slots[2][0][1].allocated /\ ~slots[2][0][0].allocated
====
